---- MODULE Spec2Model ----
(***************************************************************************)
(* Model of the matrix engine of renachan (src/src/matrix.rs).             *)
(*                                                                         *)
(* An f64 is modelled by the exact rational it denotes, a pair <<n, d>>    *)
(* in lowest terms with d > 0.  This is exact for the small integers and   *)
(* short decimals the model draws, as long as no intermediate value lies   *)
(* within floating-point error of a rounding tie.  NaN, infinities and     *)
(* the sign of zero are outside the model.                                 *)
(*                                                                         *)
(* A panic of the program is modelled by a result whose ok field is FALSE. *)
(***************************************************************************)
EXTENDS Integers, Sequences, FiniteSets

VARIABLES
    m,      \* the receiver (self) of the operation
    op,     \* the last operation applied to m ("none" after construction)
    args,   \* the arguments of that operation
    out     \* what the operation returned, or that it panicked

vars == <<m, op, args, out>>

----------------------------------------------------------------------------
(* Bounds of the model *)

\* Largest width and height of a matrix drawn as an input.
MaxDim == 4

----------------------------------------------------------------------------
(* f64 arithmetic, on exact rationals *)

Abs(i) == IF i < 0 THEN -i ELSE i

RECURSIVE GCD(_, _)
GCD(a, b) == IF b = 0 THEN a ELSE GCD(b, a % b)

\* The rational n/d in lowest terms, with a positive denominator.
Norm(n, d) ==
    LET g == GCD(Abs(n), Abs(d))
        s == IF d < 0 THEN -1 ELSE 1
    IN  <<(s * n) \div g, (s * d) \div g>>

FromInt(i) == <<i, 1>>
Zero == FromInt(0)
One == FromInt(1)

\* x + y, computed over the least common denominator
RAdd(x, y) ==
    LET g == GCD(x[2], y[2])
    IN  Norm(x[1] * (y[2] \div g) + y[1] * (x[2] \div g), (x[2] \div g) * y[2])

RNeg(x) == <<-x[1], x[2]>>

RSub(x, y) == RAdd(x, RNeg(y))

\* x * y, cancelling across before multiplying
RMul(x, y) ==
    LET g1 == GCD(Abs(x[1]), y[2])
        g2 == GCD(Abs(y[1]), x[2])
    IN  IF x[1] = 0 \/ y[1] = 0 THEN Zero
        ELSE <<(x[1] \div g1) * (y[1] \div g2), (x[2] \div g2) * (y[2] \div g1)>>

\* x / y for y # 0
RDiv(x, y) ==
    RMul(x, IF y[1] < 0 THEN <<-y[2], -y[1]>> ELSE <<y[2], y[1]>>)

RAbs(x) == <<Abs(x[1]), x[2]>>

\* x <= y
RLe(x, y) ==
    LET g == GCD(x[2], y[2])
    IN  x[1] * (y[2] \div g) <= y[1] * (x[2] \div g)

RMin(x, y) == IF RLe(x, y) THEN x ELSE y

\* f64::round: the nearest integer, ties away from zero
Round(x) ==
    LET q == (2 * Abs(x[1]) + x[2]) \div (2 * x[2])
    IN  IF x[1] < 0 THEN -q ELSE q

\* (x * 100000.0).round() / 100000.0, the rounding of inverse and of mul
InverseScale == 100000
MulScale == 100000

Round5(x, scale) ==
    LET g == GCD(scale, x[2])
    IN  Norm(Round(<<x[1] * (scale \div g), x[2] \div g>>), scale)

----------------------------------------------------------------------------
(* struct Matrix and its results *)

Matrix(w, h, d) == [width |-> w, height |-> h, data |-> d]

\* Matrix::new: the fields are stored as given
new(width, height, data) == Matrix(width, height, data)

\* Matrix::size: width * height zeros
size(width, height) == Matrix(width, height, [i \in 1..(width * height) |-> Zero])

\* A scalar result, a matrix result, and the panic of either kind
OkVal(v) == [ok |-> TRUE, val |-> v]
PanicVal == [ok |-> FALSE, val |-> Zero]
OkMat(M) == [ok |-> TRUE, mat |-> M]
PanicMat == [ok |-> FALSE, mat |-> Matrix(0, 0, <<>>)]

\* Index<(usize, usize)>: data.get(col + row * height)
index_ok(M, row, col) == col + row * M.height < Len(M.data)

index(M, row, col) == M.data[col + row * M.height + 1]

\* Matrix::identity: 1.0 where x == y, for x in 0..width, y in 0..height
identity(M) ==
    Matrix(M.width, M.height,
           [i \in 1..(M.width * M.height) |->
               IF (i - 1) \div M.height = (i - 1) % M.height THEN One ELSE Zero])

\* Matrix::identity_matrix
identity_matrix(n) ==
    Matrix(n, n, [i \in 1..(n * n) |->
                     IF (i - 1) \div n = (i - 1) % n THEN One ELSE Zero])

\* Matrix::transpose: pushes self[(x, y)] for y in 0..height, x in 0..width,
\* and keeps width and height
transpose(M) ==
    IF \E y \in 0..(M.height - 1), x \in 0..(M.width - 1) : ~index_ok(M, x, y)
    THEN PanicMat
    ELSE OkMat(Matrix(M.width, M.height,
                      [i \in 1..(M.width * M.height) |->
                          index(M, (i - 1) % M.width, (i - 1) \div M.width)]))

\* Vec::remove(i): panics when i >= len
RemoveAt(s, i) == SubSeq(s, 1, i) \o SubSeq(s, i + 2, Len(s))

\* first loop of submatrix: for (i, x) in (0..height).enumerate()
\*     data.remove(col + width * x - i)
RECURSIVE RemoveCol(_, _, _, _)
RemoveCol(M, col, x, d) ==
    IF x >= M.height THEN [ok |-> TRUE, data |-> d]
    ELSE LET at == col + M.width * x - x
         IN  IF at < 0 \/ at >= Len(d) THEN [ok |-> FALSE, data |-> d]
             ELSE RemoveCol(M, col, x + 1, RemoveAt(d, at))

\* second loop of submatrix: for (i, y) in (0..width - 1).enumerate()
\*     data.remove(row * (width - 1) + y - i)
RECURSIVE RemoveRow(_, _, _, _)
RemoveRow(M, row, y, d) ==
    IF y >= M.width - 1 THEN [ok |-> TRUE, data |-> d]
    ELSE LET at == row * (M.width - 1) + y - y
         IN  IF at >= Len(d) THEN [ok |-> FALSE, data |-> d]
             ELSE RemoveRow(M, row, y + 1, RemoveAt(d, at))

\* fault: the row is deleted where the column should be, and the reverse
submatrix_swapped(M, row, col) ==
    LET c == RemoveCol(M, row, 0, M.data)
        r == RemoveRow(M, col, 0, c.data)
    IN  IF M.width = 0 \/ M.height = 0 \/ ~c.ok \/ ~r.ok THEN PanicMat
        ELSE OkMat(Matrix(M.width - 1, M.height - 1, r.data))

\* Matrix::submatrix
submatrix(M, row, col) ==
    LET c == RemoveCol(M, col, 0, M.data)
        r == RemoveRow(M, row, 0, c.data)
    IN  IF M.width = 0 \/ M.height = 0 \/ ~c.ok \/ ~r.ok THEN PanicMat
        ELSE OkMat(Matrix(M.width - 1, M.height - 1, r.data))

RECURSIVE determinant(_)
RECURSIVE minor(_, _, _)
RECURSIVE cofactor(_, _, _)
RECURSIVE DetLoop(_, _, _)

\* the loop of determinant: for x in 0..width
\*     determinant += self[(0, x)] * self.cofactor(0, x)
DetLoop(M, x, acc) ==
    IF x >= M.width THEN OkVal(acc)
    ELSE IF ~index_ok(M, 0, x) THEN PanicVal
    ELSE LET c == cofactor(M, 0, x)
         IN  IF ~c.ok THEN PanicVal
             ELSE DetLoop(M, x + 1, RAdd(acc, RMul(index(M, 0, x), c.val)))

\* Matrix::determinant
determinant(M) ==
    IF M.width # M.height THEN PanicVal
    ELSE IF M.width = 2
    THEN IF index_ok(M, 0, 0) /\ index_ok(M, 1, 1)
            /\ index_ok(M, 0, 1) /\ index_ok(M, 1, 0)
         THEN OkVal(RSub(RMul(index(M, 0, 0), index(M, 1, 1)),
                         RMul(index(M, 0, 1), index(M, 1, 0))))
         ELSE PanicVal
    ELSE DetLoop(M, 0, Zero)

\* Matrix::minor
minor(M, row, col) ==
    LET s == submatrix(M, row, col)
    IN  IF s.ok THEN determinant(s.mat) ELSE PanicVal

\* fault: no sign rule
cofactor_unsigned(M, row, col) == minor(M, row, col)

\* fault: the sign follows the row alone
cofactor_by_row(M, row, col) ==
    LET mn == minor(M, row, col)
    IN  IF ~mn.ok THEN PanicVal
        ELSE IF row % 2 # 0 THEN OkVal(RNeg(mn.val))
        ELSE mn

\* Matrix::cofactor
cofactor(M, row, col) ==
    LET mn == minor(M, row, col)
    IN  IF ~mn.ok THEN PanicVal
        ELSE IF (row + col) % 2 # 0 THEN OkVal(RNeg(mn.val))
        ELSE mn

\* how many calls of determinant are nested below determinant(M): one for
\* each cofactor -> minor -> submatrix -> determinant step (every column
\* of the loop goes equally deep, column 0 is followed)
RECURSIVE DeterminantDepth(_)
DeterminantDepth(M) ==
    IF M.width # M.height \/ M.width = 2 \/ M.width = 0 THEN 0
    ELSE LET s == submatrix(M, 0, 0)
         IN  IF s.ok THEN 1 + DeterminantDepth(s.mat) ELSE 0

\* fault: a determinant within the tolerance of PartialEq counts as zero
is_invertible_tolerant(M) ==
    LET d == determinant(M)
    IN  [ok |-> d.ok, flag |-> d.ok /\ ~RLe(RAbs(d.val), <<1, 1000>>)]

\* Matrix::is_invertible (panics as determinant does)
is_invertible(M) ==
    LET d == determinant(M)
    IN  [ok |-> d.ok, flag |-> d.ok /\ d.val # Zero]

\* IndexMut<(usize, usize)>: *data.get_mut(col + row * height) = v
index_mut_ok(M, row, col) == col + row * M.height < Len(M.data)

index_mut(M, row, col, v) ==
    [M EXCEPT !.data = [@ EXCEPT ![col + row * M.height + 1] = v]]

\* fault: the cofactor of (row, col) is written at (row, col)
RECURSIVE InvLoop_untransposed(_, _, _, _)
InvLoop_untransposed(M, k, inv, writes) ==
    IF k >= M.width * M.width THEN [ok |-> TRUE, mat |-> inv, writes |-> writes]
    ELSE LET row == k \div M.width
             col == k % M.width
             c == cofactor(M, row, col)
             d == determinant(M)
         IN  IF ~c.ok \/ ~d.ok \/ ~index_mut_ok(inv, row, col)
             THEN [ok |-> FALSE, mat |-> inv, writes |-> writes]
             ELSE InvLoop_untransposed(M, k + 1,
                          index_mut(inv, row, col,
                                    Round5(RDiv(c.val, d.val), InverseScale)),
                          [writes EXCEPT ![col + row * inv.height + 1] = @ + 1])

\* the loops of inverse, flattened: step k is row = k / width, col = k % width
\*     inverse[(col, row)] = (cofactor / self.determinant() * 100000.0).round() / 100000.0
\* writes[i] counts the assignments made to data[i]
RECURSIVE InvLoop(_, _, _, _)
InvLoop(M, k, inv, writes) ==
    IF k >= M.width * M.width THEN [ok |-> TRUE, mat |-> inv, writes |-> writes]
    ELSE LET row == k \div M.width
             col == k % M.width
             c == cofactor(M, row, col)
             d == determinant(M)
         IN  IF ~c.ok \/ ~d.ok \/ ~index_mut_ok(inv, col, row)
             THEN [ok |-> FALSE, mat |-> inv, writes |-> writes]
             ELSE InvLoop(M, k + 1,
                          index_mut(inv, col, row,
                                    Round5(RDiv(c.val, d.val), InverseScale)),
                          [writes EXCEPT ![row + col * inv.height + 1] = @ + 1])

\* Matrix::inverse, with the number of writes to each entry
InverseRun(M) ==
    LET inv == size(M.width, M.height)
    IN  IF ~is_invertible(M).flag
        THEN [ok |-> FALSE, mat |-> inv, writes |-> [i \in 1..Len(inv.data) |-> 0]]
        ELSE InvLoop(M, 0, inv, [i \in 1..Len(inv.data) |-> 0])

inverse(M) ==
    LET r == InverseRun(M)
    IN  IF r.ok THEN OkMat(r.mat) ELSE PanicMat

\* the tolerance of PartialEq: float_eq!(x, y, rmin <= 0.001)
EqTol == <<1, 1000>>

\* float_eq's rmin comparison: x == y, or |x - y| <= tol * min(|x|, |y|)
float_eq_rmin(x, y, tol) ==
    x = y \/ RLe(RAbs(RSub(x, y)), RMul(RMin(RAbs(x), RAbs(y)), tol))

\* PartialEq for Matrix: the dimensions, then the zipped entries
eq(A, B) ==
    IF ~(A.width = B.width /\ A.height = B.height) THEN FALSE
    ELSE \A i \in 1..(IF Len(A.data) < Len(B.data) THEN Len(A.data) ELSE Len(B.data)) :
            float_eq_rmin(A.data[i], B.data[i], EqTol)

\* fault: the right operand is read at (j, k)
RECURSIVE MulSum_swapped(_, _, _, _, _, _)
MulSum_swapped(A, B, i, j, k, sum) ==
    IF k >= A.height THEN OkVal(sum)
    ELSE IF ~index_ok(A, i, k) \/ ~index_ok(B, j, k) THEN PanicVal
    ELSE MulSum_swapped(A, B, i, j, k + 1,
                        RAdd(sum, RMul(index(A, i, k), index(B, j, k))))

\* the inner loop of mul: for k in 0..self.height
\*     sum += self[(i, k)] * other[(k, j)]
RECURSIVE MulSum(_, _, _, _, _, _)
MulSum(A, B, i, j, k, sum) ==
    IF k >= A.height THEN OkVal(sum)
    ELSE IF ~index_ok(A, i, k) \/ ~index_ok(B, k, j) THEN PanicVal
    ELSE MulSum(A, B, i, j, k + 1, RAdd(sum, RMul(index(A, i, k), index(B, k, j))))

\* Mul<Matrix> for Matrix: entry p of the result is pushed for
\* i = p / other.height, j = p % other.height
mul(A, B) ==
    IF A.height # B.width THEN PanicMat
    ELSE LET cell(p) == MulSum(A, B, p \div B.height, p % B.height, 0, Zero)
             n == A.width * B.height
         IN  IF \E p \in 0..(n - 1) : ~cell(p).ok THEN PanicMat
             ELSE OkMat(Matrix(A.width, B.height,
                               [q \in 1..n |-> Round5(cell(q - 1).val, MulScale)]))

\* Tuple::new
TupleNew(x, y, z, w) == [x |-> x, y |-> y, z |-> z, w |-> w]

\* fault: y and z are read from each other's row
mul_tuple_swapped(A, t) ==
    IF A.height # 4 THEN [ok |-> FALSE, tup |-> TupleNew(Zero, Zero, Zero, Zero)]
    ELSE LET tuple_matrix == new(4, 1, <<t.x, t.y, t.z, t.w>>)
             result == mul(A, tuple_matrix)
         IN  IF ~result.ok \/ \E r \in 0..3 : ~index_ok(result.mat, r, 0)
             THEN [ok |-> FALSE, tup |-> TupleNew(Zero, Zero, Zero, Zero)]
             ELSE [ok |-> TRUE,
                   tup |-> TupleNew(index(result.mat, 0, 0), index(result.mat, 2, 0),
                                    index(result.mat, 1, 0), index(result.mat, 3, 0))]

\* Mul<Tuple> for Matrix
mul_tuple(A, t) ==
    IF A.height # 4 THEN [ok |-> FALSE, tup |-> TupleNew(Zero, Zero, Zero, Zero)]
    ELSE LET tuple_matrix == new(4, 1, <<t.x, t.y, t.z, t.w>>)
             result == mul(A, tuple_matrix)
         IN  IF ~result.ok \/ \E r \in 0..3 : ~index_ok(result.mat, r, 0)
             THEN [ok |-> FALSE, tup |-> TupleNew(Zero, Zero, Zero, Zero)]
             ELSE [ok |-> TRUE,
                   tup |-> TupleNew(index(result.mat, 0, 0), index(result.mat, 1, 0),
                                    index(result.mat, 2, 0), index(result.mat, 3, 0))]

----------------------------------------------------------------------------
(* The inputs: matrices a caller can construct *)

Dims == 1..MaxDim

\* Matrix::new(w, h, data) with data[i] = f(i), i = 1..w*h
Filled(w, h, f(_)) == new(w, h, [i \in 1..(w * h) |-> f(i)])

Counting(i) == FromInt(i)
Scattered(i) == FromInt(((i * i) % 7) - 3)
Tiny(i) == Norm(3 * i, 1000000)

\* seed 0: Matrix::size; 1: its identity(); 2: 1, 2, 3, ...; 3: scattered
\* small integers; 4: multiples of 0.000003
Gen(w, h, seed) ==
    CASE seed = 0 -> size(w, h)
      [] seed = 1 -> identity(size(w, h))
      [] seed = 2 -> Filled(w, h, Counting)
      [] seed = 3 -> Filled(w, h, Scattered)
      [] OTHER -> Filled(w, h, Tiny)

\* M with entry p (1-based, flat) set to v through an indexed write
Perturb(M, p, v) == index_mut(M, (p - 1) \div M.height, (p - 1) % M.height, v)

PerturbVals == {FromInt(3), <<1, 2>>}

Bases == {Gen(w, h, seed) : w \in Dims, h \in Dims, seed \in 0..3}

\* 0.0005, set on the diagonal of an identity: a determinant below every
\* tolerance of the module, yet not zero
SmallVal == <<1, 2000>>

NearSingular == {Perturb(Gen(n, n, 1), p, SmallVal) : n \in Dims, p \in {1}}

\* the receivers
Inputs ==
    Bases \cup NearSingular
    \cup UNION {{Perturb(B, p, v) : p \in 1..Len(B.data), v \in PerturbVals} :
                   B \in Bases}

\* the right operands of a matrix product
MulOperands == {Gen(w, h, seed) : w \in Dims, h \in Dims, seed \in 3..4}

\* the right operands of a comparison with M: M itself, M with one entry
\* moved by a small delta, and matrices of other dimensions
Deltas == {<<1, 2000>>, <<3, 2000>>, <<1, 100>>}

EqOperands(M) ==
    {M, size(M.height, M.width), size(M.width + 1, M.height)}
    \cup {Perturb(M, p, RAdd(M.data[p], d)) : p \in 1..Len(M.data), d \in Deltas}

Tuples ==
    {TupleNew(One, FromInt(2), FromInt(3), One),
     TupleNew(FromInt(-1), <<1, 2>>, FromInt(2), Zero),
     TupleNew(<<3, 1000000>>, <<7, 1000000>>, Zero, One)}

----------------------------------------------------------------------------
(* The state machine: construct a matrix, apply one operation, clear *)

NoMatrix == Matrix(0, 0, <<>>)
NoTuple == TupleNew(Zero, Zero, Zero, Zero)
NoArgs == [row |-> 0, col |-> 0, other |-> NoMatrix, t |-> NoTuple,
           v |-> Zero, width |-> 0, height |-> 0, data |-> <<>>]
NoOut == [ok |-> TRUE, val |-> Zero, mat |-> NoMatrix, flag |-> FALSE,
          tup |-> NoTuple, writes |-> <<>>]

Init ==
    /\ m \in Inputs
    /\ op = "none"
    /\ args = NoArgs
    /\ out = NoOut

Transpose ==
    /\ op = "none"
    /\ op' = "transpose"
    /\ \E r \in {transpose(m)} :
           out' = [NoOut EXCEPT !.ok = r.ok, !.mat = r.mat]
    /\ UNCHANGED <<m, args>>

Determinant ==
    /\ op = "none"
    /\ op' = "determinant"
    /\ \E r \in {determinant(m)} :
           out' = [NoOut EXCEPT !.ok = r.ok, !.val = r.val]
    /\ UNCHANGED <<m, args>>

Submatrix ==
    /\ op = "none"
    /\ \E row \in 0..(MaxDim - 1), col \in 0..(MaxDim - 1) :
          /\ args' = [NoArgs EXCEPT !.row = row, !.col = col]
          /\ \E r \in {submatrix(m, row, col)} :
                 out' = [NoOut EXCEPT !.ok = r.ok, !.mat = r.mat]
    /\ op' = "submatrix"
    /\ UNCHANGED m

Minor ==
    /\ op = "none"
    /\ \E row \in 0..(MaxDim - 1), col \in 0..(MaxDim - 1) :
          /\ args' = [NoArgs EXCEPT !.row = row, !.col = col]
          /\ \E r \in {minor(m, row, col)} :
                 out' = [NoOut EXCEPT !.ok = r.ok, !.val = r.val]
    /\ op' = "minor"
    /\ UNCHANGED m

Cofactor ==
    /\ op = "none"
    /\ \E row \in 0..(MaxDim - 1), col \in 0..(MaxDim - 1) :
          /\ args' = [NoArgs EXCEPT !.row = row, !.col = col]
          /\ \E r \in {cofactor(m, row, col)} :
                 out' = [NoOut EXCEPT !.ok = r.ok, !.val = r.val]
    /\ op' = "cofactor"
    /\ UNCHANGED m

IsInvertible ==
    /\ op = "none"
    /\ op' = "is_invertible"
    /\ \E r \in {is_invertible(m)} :
           out' = [NoOut EXCEPT !.ok = r.ok, !.flag = r.flag]
    /\ UNCHANGED <<m, args>>

Inverse ==
    /\ op = "none"
    /\ op' = "inverse"
    /\ \E r \in {InverseRun(m)} :
           out' = [NoOut EXCEPT !.ok = r.ok,
                                !.mat = IF r.ok THEN r.mat ELSE NoMatrix,
                                !.writes = IF r.ok THEN r.writes ELSE <<>>]
    /\ UNCHANGED <<m, args>>

Eq ==
    /\ op = "none"
    /\ \E other \in EqOperands(m) :
          /\ args' = [NoArgs EXCEPT !.other = other]
          /\ out' = [NoOut EXCEPT !.flag = eq(m, other)]
    /\ op' = "eq"
    /\ UNCHANGED m

Mul ==
    /\ op = "none"
    /\ \E other \in MulOperands :
          /\ args' = [NoArgs EXCEPT !.other = other]
          /\ \E r \in {mul(m, other)} :
                 out' = [NoOut EXCEPT !.ok = r.ok, !.mat = r.mat]
    /\ op' = "mul"
    /\ UNCHANGED m

\* a * a.inverse(): the product of m with the inverse just computed
MulByInverse ==
    /\ op = "inverse"
    /\ out.ok
    /\ args' = [NoArgs EXCEPT !.other = out.mat]
    /\ \E r \in {mul(m, out.mat)} :
           out' = [NoOut EXCEPT !.ok = r.ok, !.mat = r.mat]
    /\ op' = "mul_inverse"
    /\ UNCHANGED m

MulTuple ==
    /\ op = "none"
    /\ \E t \in Tuples :
          /\ args' = [NoArgs EXCEPT !.t = t]
          /\ \E r \in {mul_tuple(m, t)} :
                 out' = [NoOut EXCEPT !.ok = r.ok, !.tup = r.tup]
    /\ op' = "mul_tuple"
    /\ UNCHANGED m

\* self[(row, col)]
Index ==
    /\ op = "none"
    /\ \E row \in 0..MaxDim, col \in 0..MaxDim :
          /\ args' = [NoArgs EXCEPT !.row = row, !.col = col]
          /\ out' = IF index_ok(m, row, col)
                    THEN [NoOut EXCEPT !.val = index(m, row, col)]
                    ELSE [NoOut EXCEPT !.ok = FALSE]
    /\ op' = "index"
    /\ UNCHANGED m

\* self[(row, col)] = v; args.other keeps the matrix as it was before.
\* The matrices are kept within Inputs, which bounds the chain of writes.
IndexMut ==
    /\ op = "none"
    /\ \E row \in 0..MaxDim, col \in 0..MaxDim, v \in PerturbVals :
          /\ args' = [NoArgs EXCEPT !.row = row, !.col = col, !.v = v, !.other = m]
          /\ IF index_mut_ok(m, row, col)
             THEN /\ index_mut(m, row, col, v) \in Inputs
                  /\ m' = index_mut(m, row, col, v)
                  /\ out' = NoOut
             ELSE /\ m' = m
                  /\ out' = [NoOut EXCEPT !.ok = FALSE]
    /\ op' = "index_mut"

\* Matrix::new(width, height, data), with data one entry short, exact, or
\* one entry long; the matrix returned is out.mat
New ==
    /\ op = "none"
    /\ \E width \in Dims, height \in Dims :
          \E len \in {width * height - 1, width * height, width * height + 1} :
             /\ args' = [NoArgs EXCEPT !.width = width, !.height = height,
                                       !.data = [i \in 1..len |-> Counting(i)]]
             /\ out' = [NoOut EXCEPT
                           !.mat = new(width, height, [i \in 1..len |-> Counting(i)])]
    /\ op' = "new"
    /\ UNCHANGED m

\* the result is dropped; m is still there for the next call
Clear ==
    /\ op # "none"
    /\ op' = "none"
    /\ args' = NoArgs
    /\ out' = NoOut
    /\ UNCHANGED m

Next ==
    \/ Transpose
    \/ Determinant
    \/ Submatrix
    \/ Minor
    \/ Cofactor
    \/ IsInvertible
    \/ Inverse
    \/ Eq
    \/ Mul
    \/ MulByInverse
    \/ MulTuple
    \/ Index
    \/ IndexMut
    \/ New
    \/ Clear

Spec == Init /\ [][Next]_vars

----------------------------------------------------------------------------
(* What the claims are stated with *)

IsSquare(M) == M.width = M.height

IsInteger(M) == \A i \in 1..Len(M.data) : M.data[i][2] = 1

\* the permutations of 0..n-1, for every n the model draws
PermsOf ==
    [n \in 0..(MaxDim + 1) |->
        {f \in [0..(n - 1) -> 0..(n - 1)] :
            \A i, j \in 0..(n - 1) : f[i] = f[j] => i = j}]

Inversions(f, n) ==
    Cardinality({ij \in (0..(n - 1)) \X (0..(n - 1)) :
                    ij[1] < ij[2] /\ f[ij[1]] > f[ij[2]]})

RECURSIVE PermProduct(_, _, _)
PermProduct(M, f, i) ==
    IF i >= M.width THEN One
    ELSE RMul(index(M, i, f[i]), PermProduct(M, f, i + 1))

\* the sum of term[e] over e in S
RECURSIVE SumOver(_, _)
SumOver(S, term) ==
    IF S = {} THEN Zero
    ELSE LET e == CHOOSE e \in S : TRUE
         IN  RAdd(term[e], SumOver(S \ {e}, term))

\* the determinant of a square matrix by the Leibniz formula
Leibniz(M) ==
    LET term == [f \in PermsOf[M.width] |->
                    IF Inversions(f, M.width) % 2 = 0
                    THEN PermProduct(M, f, 0)
                    ELSE RNeg(PermProduct(M, f, 0))]
    IN  SumOver(PermsOf[M.width], term)

\* v is x rounded to the nearest multiple of 1/scale, ties away from zero
IsRounded(x, v, scale) ==
    LET k == RMul(v, FromInt(scale))
        g == GCD(scale, x[2])
        xs == <<x[1] * (scale \div g), x[2] \div g>>
        diff == RAbs(RSub(xs, k))
    IN  /\ k[2] = 1
        /\ RLe(diff, <<1, 2>>)
        /\ diff = <<1, 2>> => RLe(RAbs(xs), RAbs(k))

\* (row, col) lies in [0, width) x [0, height) and addresses a stored entry
InRange(M, row, col) ==
    /\ 0 <= row /\ row < M.width
    /\ 0 <= col /\ col < M.height
    /\ col + row * M.height < Len(M.data)

\* the sum over k in [0, A.height) of A[(i, k)] * B[(k, j)]
Dot(A, B, i, j) ==
    SumOver(0..(A.height - 1),
            [k \in 0..(A.height - 1) |-> RMul(index(A, i, k), index(B, k, j))])

\* |x - y| <= 0.001
WithinAbsolute(x, y) == RLe(RAbs(RSub(x, y)), <<1, 1000>>)

----------------------------------------------------------------------------
(* C1: submatrix of a square matrix of size n >= 2, at a row and a column
   in [0, n), is (n-1) x (n-1), and its entry (r, c) is the entry of the
   matrix at (r + 1 if r >= row, c + 1 if c >= col): the row and the column
   are deleted and every other entry keeps its relative position. *)
C1_SubmatrixDeletesRowAndCol ==
    (/\ op = "submatrix"
     /\ IsSquare(m) /\ m.width >= 2
     /\ args.row < m.width /\ args.col < m.width)
    => /\ out.ok
       /\ out.mat.width = m.width - 1
       /\ out.mat.height = m.height - 1
       /\ Len(out.mat.data) = (m.width - 1) * (m.height - 1)
       /\ \A r, c \in 0..(m.width - 2) :
             index(out.mat, r, c)
               = index(m, r + (IF r >= args.row THEN 1 ELSE 0),
                          c + (IF c >= args.col THEN 1 ELSE 0))

\* submatrix(2, 1) of the 4x4 matrix 1, 2, ..., 16 has been taken
C1_Witness ==
    /\ op = "submatrix"
    /\ m = Gen(4, 4, 2)
    /\ args.row = 2 /\ args.col = 1
    /\ out.ok
    /\ out.mat.data = [i \in 1..9 |-> FromInt(<<1, 3, 4, 5, 7, 8, 13, 15, 16>>[i])]

(* C2: the determinant of a square matrix of size n >= 2 with integer
   entries is its mathematical determinant (the Leibniz sum over the
   permutations); for n = 2 it is A[0][0]*A[1][1] - A[0][1]*A[1][0], and for
   n > 2 the sum over c of A[0][c] * cofactor(A, 0, c). *)
C2_DeterminantIsDeterminant ==
    (/\ op = "determinant"
     /\ IsSquare(m) /\ m.width >= 2
     /\ IsInteger(m))
    => /\ out.ok
       /\ out.val = Leibniz(m)
       /\ m.width = 2 =>
             out.val = RSub(RMul(index(m, 0, 0), index(m, 1, 1)),
                            RMul(index(m, 0, 1), index(m, 1, 0)))
       /\ m.width > 2 =>
             LET term == [c \in 0..(m.width - 1) |->
                             RMul(index(m, 0, c), cofactor(m, 0, c).val)]
             IN  out.val = SumOver(0..(m.width - 1), term)

\* the determinant of a 4x4 integer matrix has been computed and is not 0
C2_Witness ==
    /\ op = "determinant"
    /\ m = Gen(4, 4, 3)
    /\ out.ok
    /\ out.val = FromInt(-42)

(* C3: for a square matrix of size n >= 3 and (row, col) in [0, n) x [0, n),
   minor is the determinant of the submatrix at (row, col), and cofactor is
   the minor when row + col is even and the minor negated when it is odd. *)
C3_MinorAndCofactor ==
    (/\ IsSquare(m) /\ m.width >= 3
     /\ args.row < m.width /\ args.col < m.width)
    => /\ op = "minor" =>
             /\ out.ok
             /\ out.val = determinant(submatrix(m, args.row, args.col).mat).val
       /\ op = "cofactor" =>
             /\ out.ok
             /\ out.val = IF (args.row + args.col) % 2 = 0
                          THEN minor(m, args.row, args.col).val
                          ELSE RNeg(minor(m, args.row, args.col).val)

\* cofactor(1, 2) of a 3x3 matrix is its minor, which is not 0, negated
C3_Witness ==
    /\ op = "cofactor"
    /\ m = Gen(3, 3, 3)
    /\ args.row = 1 /\ args.col = 2
    /\ out.ok
    /\ out.val # Zero
    /\ out.val = RNeg(minor(m, 1, 2).val)

(* C4: for a square matrix of size n >= 2 with a determinant that is not
   0, inverse returns an n x n matrix whose entry at (col, row) is
   cofactor(row, col) / determinant rounded to the nearest multiple of
   0.00001, for every (row, col); every entry is written exactly once. *)
C4_InverseEntries ==
    (/\ op = "inverse"
     /\ IsSquare(m) /\ m.width >= 2
     /\ determinant(m).val # Zero)
    => /\ out.ok
       /\ out.mat.width = m.width
       /\ out.mat.height = m.width
       /\ Len(out.mat.data) = m.width * m.width
       /\ \A row, col \in 0..(m.width - 1) :
             IsRounded(RDiv(cofactor(m, row, col).val, determinant(m).val),
                       index(out.mat, col, row), 100000)
       /\ \A i \in 1..(m.width * m.width) : out.writes[i] = 1

\* the inverse of a 3x3 matrix is there, it is not symmetric, and one of
\* its entries is not its exact quotient
C4_Witness ==
    /\ op = "inverse"
    /\ IsSquare(m) /\ m.width = 3
    /\ out.ok
    /\ index(out.mat, 0, 1) # index(out.mat, 1, 0)
    /\ \E row, col \in 0..2 :
          index(out.mat, col, row)
            # RDiv(cofactor(m, row, col).val, determinant(m).val)

(* C5: inverse returns a matrix exactly when the matrix is square and its
   determinant is not exactly 0, and fails otherwise; is_invertible is true
   exactly when the determinant is not 0, however small it is. *)
C5_InverseIffInvertible ==
    /\ op = "inverse" =>
          (out.ok <=> (IsSquare(m) /\ determinant(m).val # Zero))
    /\ (op = "is_invertible" /\ IsSquare(m)) =>
          /\ out.ok
          /\ out.flag <=> (determinant(m).val # Zero)
    /\ (op = "is_invertible" /\ ~IsSquare(m)) => ~out.ok

\* a matrix whose determinant is 0.0005 has been found invertible
C5_Witness ==
    /\ op = "is_invertible"
    /\ IsSquare(m) /\ m.width = 3
    /\ determinant(m).val = SmallVal
    /\ out.ok
    /\ out.flag

(* C6: for a square matrix of size n >= 2 with a determinant that is not
   0, the product of the matrix with its inverse compares equal, by the
   equality of the module, to the identity matrix of its width. *)
C6_ProductWithInverseIsIdentity ==
    (/\ op = "mul_inverse"
     /\ IsSquare(m) /\ m.width >= 2)
    => /\ out.ok
       /\ eq(out.mat, identity_matrix(m.width))

(* C7: two matrices compare equal if and only if their widths are equal,
   their heights are equal, and every pair of corresponding entries differs
   by at most 0.001 in absolute value, whatever their magnitude. *)
C7_EqIsAbsoluteTolerance ==
    op = "eq" =>
        (out.flag <=>
            /\ m.width = args.other.width
            /\ m.height = args.other.height
            /\ \A i \in 1..Len(m.data) :
                  WithinAbsolute(m.data[i], args.other.data[i]))

(* C8: a product A * B fails if and only if A.height # B.width; otherwise
   the result has the width of A and the height of B, holds
   A.width * B.height entries, its entry (i, j) is the sum over k in
   [0, A.height) of A[(i, k)] * B[(k, j)] rounded to 5 decimals, and every
   index read is in range. *)
C8_MulEntries ==
    op \in {"mul", "mul_inverse"} =>
        /\ ~out.ok <=> m.height # args.other.width
        /\ out.ok =>
              /\ out.mat.width = m.width
              /\ out.mat.height = args.other.height
              /\ Len(out.mat.data) = m.width * args.other.height
              /\ \A i \in 0..(m.width - 1), j \in 0..(args.other.height - 1) :
                    /\ InRange(out.mat, i, j)
                    /\ IsRounded(Dot(m, args.other, i, j),
                                 index(out.mat, i, j), 100000)
                    /\ \A k \in 0..(m.height - 1) :
                          InRange(m, i, k) /\ InRange(args.other, k, j)

\* a 2 x 3 matrix has been multiplied by a 3 x 4 matrix of multiples of
\* 0.000003, and the rounding changed an entry of the product
C8_Witness ==
    /\ op = "mul"
    /\ m.width = 2 /\ m.height = 3
    /\ args.other = Gen(3, 4, 4)
    /\ out.ok
    /\ \E i \in 0..1, j \in 0..3 :
          /\ index(out.mat, i, j) # Zero
          /\ index(out.mat, i, j) # Dot(m, args.other, i, j)

\* component i of A * t: A[(i,0)]*x + A[(i,1)]*y + A[(i,2)]*z + A[(i,3)]*w
TupleRow(A, t, i) ==
    RAdd(RAdd(RMul(index(A, i, 0), t.x), RMul(index(A, i, 1), t.y)),
         RAdd(RMul(index(A, i, 2), t.z), RMul(index(A, i, 3), t.w)))

TupleIsProduct(A, t, r) ==
    /\ IsRounded(TupleRow(A, t, 0), r.x, 100000)
    /\ IsRounded(TupleRow(A, t, 1), r.y, 100000)
    /\ IsRounded(TupleRow(A, t, 2), r.z, 100000)
    /\ IsRounded(TupleRow(A, t, 3), r.w, 100000)

(* C9 as claimed: for a matrix of height 4 and a tuple (x, y, z, w), the
   product is the tuple whose component i is the rounded
   A[(i,0)]*x + A[(i,1)]*y + A[(i,2)]*z + A[(i,3)]*w; for any other height
   the product fails. *)
C9_MulTupleOfHeight4 ==
    op = "mul_tuple" =>
        IF m.height = 4
        THEN out.ok /\ TupleIsProduct(m, args.t, out.tup)
        ELSE ~out.ok

(* C9 as amended: the product is that tuple when the height is 4 and the
   width is at least 4; it fails when the height is not 4 or the width is
   below 4. *)
C9_MulTupleOfHeight4Width4 ==
    op = "mul_tuple" =>
        IF m.height = 4 /\ m.width >= 4
        THEN out.ok /\ TupleIsProduct(m, args.t, out.tup)
        ELSE ~out.ok

\* the 4x4 matrix 1, 2, ..., 16 times the tuple (1, 2, 3, 1)
C9_Witness ==
    /\ op = "mul_tuple"
    /\ m = Gen(4, 4, 2)
    /\ args.t = TupleNew(One, FromInt(2), FromInt(3), One)
    /\ out.ok
    /\ out.tup = TupleNew(FromInt(18), FromInt(46), FromInt(74), FromInt(102))

(* C10: transpose never fails, keeps the width and the height, and the
   transpose of the transpose is the matrix itself, square or not. *)
C10_TransposeInvolution ==
    op = "transpose" =>
        /\ out.ok
        /\ out.mat.width = m.width
        /\ out.mat.height = m.height
        /\ transpose(out.mat).ok
        /\ transpose(out.mat).mat = m

\* (row, col) lies outside [0, width) x [0, height)
OutOfRange(M, row, col) == ~(row < M.width /\ col < M.height)

(* C11: an indexed read or write at a pair (row, col) with row outside
   [0, width) or col outside [0, height) fails: it returns no entry and
   overwrites none; distinct pairs in range address distinct entries. *)
C11_IndexFailsOutOfRange ==
    /\ (op = "index" /\ OutOfRange(m, args.row, args.col)) => ~out.ok
    /\ (op = "index_mut" /\ OutOfRange(args.other, args.row, args.col)) =>
          ~out.ok /\ m = args.other
    /\ op \in {"index", "index_mut"} =>
          \A r1, r2 \in 0..(m.width - 1), c1, c2 \in 0..(m.height - 1) :
             (c1 + r1 * m.height = c2 + r2 * m.height) => (r1 = r2 /\ c1 = c2)

(* C12: Matrix::new(width, height, data) fails whenever the length of data
   is not width * height, so the matrix it returns always holds
   width * height entries. *)
C12_NewChecksLength ==
    op = "new" =>
       /\ Len(args.data) # args.width * args.height => ~out.ok
       /\ out.ok => Len(out.mat.data) = out.mat.width * out.mat.height

(* C13: determinant is the mathematical determinant for every square size
   n >= 1: for a 1 x 1 matrix [a] it returns a, so that [a] with a # 0 is
   invertible, and the recursion nests at most n levels of
   cofactor/submatrix. *)
C13_DeterminantEverySize ==
    /\ (op = "determinant" /\ IsSquare(m) /\ IsInteger(m)) =>
          /\ out.ok
          /\ out.val = Leibniz(m)
          /\ DeterminantDepth(m) <= m.width
    /\ (op = "determinant" /\ m.width = 1 /\ m.height = 1) =>
          out.ok /\ out.val = index(m, 0, 0)
    /\ (op = "is_invertible" /\ m.width = 1 /\ m.height = 1
           /\ index(m, 0, 0) # Zero) =>
          out.ok /\ out.flag

====
